---- MODULE Spec2Model ----
(***************************************************************************)
(* Model of src/PrettierEditProvider.ts: the edit provider that formats a  *)
(* document with prettier and pipes the result through standard's autofix. *)
(* One formatting request is one asynchronous chain; the host may change   *)
(* the document while the chain is suspended.                              *)
(*                                                                         *)
(* JavaScript values are modelled as strings; an object is a function from *)
(* its keys to values; `undefined` is the string Undefined.                *)
(***************************************************************************)
EXTENDS Integers, Sequences, FiniteSets, TLC

\* ------------------------------------------------------------------ bounds
\* how many times the host changes the document during one request
MaxChanges == 1
\* how many entries the linter's results list holds at most
MaxResults == 2

\* ------------------------------------------------------------ JS values
Undefined == "undefined"
EmptyObj == [k \in {} |-> Undefined]

\* o[k] of JavaScript: undefined for a key the object does not own
Get(o, k) == IF k \in DOMAIN o THEN o[k] ELSE Undefined

\* a || b of JavaScript on strings: undefined and "" are falsy
OrElse(a, b) == IF a = Undefined \/ a = "" THEN b ELSE a

\* Object.assign(target, source): every own key of source is written to target
ObjectAssign(target, source) ==
    [k \in (DOMAIN target) \cup (DOMAIN source) |->
        IF k \in DOMAIN source THEN source[k] ELSE target[k]]

\* array.includes(x)
Includes(arr, x) == \E i \in 1..Len(arr) : arr[i] = x

\* ------------------------------------------------ the host's documents
\* A document version: its text and the length of each of its lines.
Documents ==
    { [text |-> "const x=1", lineLengths |-> <<9>>],
      [text |-> "const x=1\nlet y", lineLengths |-> <<9, 5>>],
      [text |-> "a\n\n", lineLengths |-> <<1, 0, 0>>] }

Languages == {"javascript", "typescript", "css"}

FileName == "/project/file"

LocalVersion == "local"
BundledVersion == "bundled"

\* ------------------------------------------------ collaborators (utils)
\* parsers a formatter that knows the language offers for it, in order
ParsersOfLanguage(languageId) ==
    CASE languageId = "javascript" -> <<"babylon", "flow">>
      [] languageId = "typescript" -> <<"typescript">>
      [] languageId = "css" -> <<"postcss">>
      [] OTHER -> <<>>

\* getParsersFromLanguageId(languageId, version, path): the candidates of
\* the formatter of that version; `supported` is the set of languages the
\* version knows
getParsersFromLanguageId(languageId, supported) ==
    IF languageId \in supported THEN ParsersOfLanguage(languageId) ELSE <<>>

\* the parsers of the languages of getGroup('JavaScript')
JavaScriptGroupParsers == {"babylon", "flow", "typescript"}

\* ------------------------------------------------ host configuration
VSCodeConfigs ==
    { [printWidth |-> "80", tabWidth |-> "2", singleQuote |-> "true",
       trailingComma |-> "none", bracketSpacing |-> "true",
       jsxBracketSameLine |-> "false", semi |-> "true", useTabs |-> "false",
       proseWrap |-> "preserve", arrowParens |-> "avoid",
       parser |-> p, disableLanguages |-> d, requireConfig |-> r] :
         p \in {Undefined, "flow"},
         d \in {<<>>, <<"css">>},
         r \in BOOLEAN }

\* ------------------------------------------------ outcomes of the externals
\* bundledPrettier.resolveConfig(path, options): throws, null, or a config
ProjectConfigs ==
    { [semi |-> "false"],
      [semi |-> "false", parser |-> "json", printWidth |-> "100"] }

ResolveOutcomes ==
    { [kind |-> "throw", config |-> EmptyObj],
      [kind |-> "null", config |-> EmptyObj] }
    \cup { [kind |-> "config", config |-> c] : c \in ProjectConfigs }

\* prettier.format(text, options): throws or returns the formatted text
FormatOutcomes ==
    { [kind |-> "throw", pretty |-> Undefined],
      [kind |-> "ok", pretty |-> "const x = 1\n"] }

\* standard.lintText(text, options, cb): cb(err) or cb(null, {results});
\* a result entry carries `output` only when a fix changed the text
ResultEntries == { [output |-> Undefined], [output |-> "const x = 1;\n"] }

ResultLists ==
    UNION { [1..n -> ResultEntries] : n \in 0..MaxResults }

LintOutcomes ==
    { [err |-> TRUE, results |-> <<>>] }
    \cup { [err |-> FALSE, results |-> rs] : rs \in ResultLists }

\* ------------------------------------------------ promises
Fulfilled(v) == [status |-> "fulfilled", value |-> v]
Rejected == [status |-> "rejected", value |-> Undefined]

\* ------------------------------------------------ functions of the source
\* standardLintText: the callback's err rejects, its results resolve
standardLintText(outcome) ==
    IF outcome.err
    THEN [status |-> "rejected", results |-> <<>>]
    ELSE [status |-> "fulfilled", results |-> outcome.results]

\* resolveConfig: never throws; a failed lookup is config null with the error
resolveConfig(outcome) ==
    IF outcome.kind = "throw"
    THEN [isNull |-> TRUE, config |-> EmptyObj, error |-> TRUE]
    ELSE [isNull |-> outcome.kind = "null", config |-> outcome.config,
          error |-> FALSE]

\* hasPrettierConfig: config !== null, the error is dropped
hasPrettierConfig(outcome) == ~resolveConfig(outcome).isNull

\* fileOptions || {}
FileOptions(resolved) ==
    IF resolved.isNull THEN EmptyObj ELSE resolved.config

\* mergeConfig with the call-site layer applied before the project-file layer
mergeConfigFileLast(hasConfig, additionalConfig, prettierConfig, vscodeLayer) ==
    IF hasConfig
    THEN ObjectAssign(
             ObjectAssign([parser |-> Get(vscodeLayer, "parser")], additionalConfig),
             prettierConfig)
    ELSE ObjectAssign(ObjectAssign(vscodeLayer, additionalConfig), prettierConfig)

\* mergeConfig(hasPrettierConfig, additionalConfig, prettierConfig, vscodeConfig)
mergeConfig(hasConfig, additionalConfig, prettierConfig, vscodeLayer) ==
    IF hasConfig
    THEN ObjectAssign(
             ObjectAssign([parser |-> Get(vscodeLayer, "parser")], prettierConfig),
             additionalConfig)
    ELSE ObjectAssign(ObjectAssign(vscodeLayer, prettierConfig), additionalConfig)

\* the object literal handed to mergeConfig as vscodeConfig
VSCodeLayer(cfg, chosenParser) ==
    [printWidth |-> cfg.printWidth, tabWidth |-> cfg.tabWidth,
     singleQuote |-> cfg.singleQuote, trailingComma |-> cfg.trailingComma,
     bracketSpacing |-> cfg.bracketSpacing,
     jsxBracketSameLine |-> cfg.jsxBracketSameLine,
     parser |-> chosenParser, semi |-> cfg.semi, useTabs |-> cfg.useTabs,
     proseWrap |-> cfg.proseWrap, arrowParens |-> cfg.arrowParens]

\* the disable test made on the file name instead of the language
IsDisabledByFileName(cfg, lang) == Includes(cfg.disableLanguages, FileName)

\* vscodeConfig.disableLanguages.includes(languageId)
IsDisabled(cfg, lang) == Includes(cfg.disableLanguages, lang)

\* bundledParsers[0] without the default
FirstOrUndefined(bundledParsers) ==
    IF Len(bundledParsers) > 0 THEN bundledParsers[1] ELSE Undefined

\* bundledParsers[0] || 'babylon'
FirstOrBabylon(bundledParsers) ==
    OrElse(IF Len(bundledParsers) > 0 THEN bundledParsers[1] ELSE Undefined,
           "babylon")

\* the choice of parser and engine flag
SelectParser(dynamicParsers, bundledParsers, configuredParser) ==
    IF Len(dynamicParsers) = 0
    THEN [parser |-> FirstOrBabylon(bundledParsers), useBundled |-> TRUE]
    ELSE IF Includes(dynamicParsers, configuredParser)
         THEN [parser |-> configuredParser, useBundled |-> FALSE]
         ELSE [parser |-> dynamicParsers[1], useBundled |-> FALSE]

\* getGroup('JavaScript').some(lang => lang.parsers.includes(parser))
doesParserSupportEslint(chosenParser) == chosenParser \in JavaScriptGroupParsers

\* if (!doesParserSupportEslint && useBundled): the bundled branch
TakesBundledBranch(chosenParser, bundledFlag) ==
    ~doesParserSupportEslint(chosenParser) /\ bundledFlag

\* the skip made without looking at requireConfig
SkipsWheneverNoConfig(hasConfig, cfg) == ~hasConfig

\* if (!hasConfig && vscodeConfig.requireConfig) return text
SkipsForMissingConfig(hasConfig, cfg) == ~hasConfig /\ cfg.requireConfig

\* new Promise(... try { resolve(format(...)) } catch (err) { reject(err) })
FormatPromise(outcome) ==
    IF outcome.kind = "throw" THEN Rejected ELSE Fulfilled(outcome.pretty)

\* the linter called without the fix option
LintCallWithoutFix(pretty) ==
    [fn |-> "lintText", text |-> pretty, opts |-> [parser |-> "babel-eslint"]]

\* standardLintText(pretty, { fix: true, parser: 'babel-eslint' })
LintCall(pretty) ==
    [fn |-> "lintText", text |-> pretty,
     opts |-> [fix |-> "true", parser |-> "babel-eslint"]]

\* the first output read leniently: a missing first entry yields undefined
FirstOutputLenient(lintPromise) ==
    IF lintPromise.status = "rejected" THEN Rejected
    ELSE IF Len(lintPromise.results) = 0 THEN Fulfilled(Undefined)
    ELSE Fulfilled(lintPromise.results[1].output)

\* .then(obj => obj.results[0].output): reading .output of a missing first
\* entry throws; a first entry without output yields undefined
FirstOutput(lintPromise) ==
    IF lintPromise.status = "rejected" THEN Rejected
    ELSE IF Len(lintPromise.results) = 0 THEN Rejected
    ELSE Fulfilled(lintPromise.results[1].output)

\* safeExecution(promise, defaultText, fileName): a rejection is reported to
\* the output and replaced by the default text
safeExecution(promise, defaultText) ==
    IF promise.status = "rejected"
    THEN [promise |-> Fulfilled(defaultText), messages |-> <<"error">>]
    ELSE [promise |-> promise, messages |-> <<>>]

\* fullDocumentRange(document)
fullDocumentRange(doc) ==
    LET lastLineId == Len(doc.lineLengths) - 1
    IN  <<0, 0, lastLineId, doc.lineLengths[lastLineId + 1]>>

\* the ignore test without the untitled exemption
IsSkippedAlsoUntitled(untitled, ignored) == ignored

\* !document.isUntitled && this._fileIsIgnored(document.fileName)
IsSkipped(untitled, ignored) == ~untitled /\ ignored

\* whether _fileIsIgnored is evaluated (&& short-circuits)
ConsultsIgnore(untitled) == ~untitled

\* the edit built from the document as it was when the request started
TextEditsOfCallVersion(docAtCall, docNow, code) ==
    << [range |-> <<0, 0, Len(docAtCall.lineLengths) - 1,
                    docAtCall.lineLengths[Len(docAtCall.lineLengths)]>>,
        newText |-> code] >>

\* code => [TextEdit.replace(fullDocumentRange(document), code)], run when
\* format() settles: docNow is the document at that moment
TextEdits(docAtCall, docNow, code) ==
    << [range |-> fullDocumentRange(docNow), newText |-> code] >>

\* { rangeStart: document.offsetAt(range.start), rangeEnd: ... }
RangeOptions == [rangeStart |-> "0", rangeEnd |-> "4"]

\* setUsedModule('prettier', version, bundled)
UsedModuleEntry(bundled) ==
    [name |-> "prettier",
     version |-> IF bundled THEN BundledVersion ELSE LocalVersion,
     bundled |-> bundled]

\* the formatter the branch calls
FormatCall(bundled, input, options) ==
    [fn |-> IF bundled THEN "bundledPrettier.format" ELSE "localPrettier.format",
     text |-> input, opts |-> options]

\* bundledPrettier.resolveConfig(filePath, options)
ResolveCall(options) ==
    [fn |-> "resolveConfig", text |-> FileName, opts |-> options]

\* ------------------------------------------------ state
VARIABLES
    \* the host: the open document and its environment
    document, isUntitled, languageId, vscodeConfig,
    localLanguages, bundledLanguages, fileIsIgnored, changes,
    \* the request: position and locals of _provideEdits and format
    pc, operation, docAtCall, text, customOptions, parser, useBundled,
    hasConfig, fileOptions, vscodeLayer, prettierOptions, pretty,
    \* what the collaborators saw
    calls, outcomes, lintResults, output, usedModule,
    \* what the host gets back
    formatResult, edits, settled

hostVars ==
    <<isUntitled, languageId, vscodeConfig, localLanguages, bundledLanguages,
      fileIsIgnored>>

vars ==
    <<document, isUntitled, languageId, vscodeConfig, localLanguages,
      bundledLanguages, fileIsIgnored, changes, pc, operation, docAtCall, text,
      customOptions, parser, useBundled, hasConfig, fileOptions, vscodeLayer,
      prettierOptions, pretty, calls, outcomes, lintResults, output,
      usedModule, formatResult, edits, settled>>

Pending == [status |-> "pending", value |-> Undefined]

\* the request's locals before the request starts
IdleRequest ==
    /\ operation = "none"
    /\ docAtCall = document
    /\ text = Undefined
    /\ customOptions = EmptyObj
    /\ parser = Undefined
    /\ useBundled = FALSE
    /\ hasConfig = FALSE
    /\ fileOptions = EmptyObj
    /\ vscodeLayer = EmptyObj
    /\ prettierOptions = EmptyObj
    /\ pretty = Undefined
    /\ calls = <<>>
    /\ outcomes = <<>>
    /\ lintResults = <<>>
    /\ output = <<>>
    /\ usedModule = <<>>
    /\ formatResult = Pending
    /\ edits = <<>>
    /\ settled = "pending"
    /\ changes = 0

Init ==
    /\ document \in Documents
    /\ isUntitled \in BOOLEAN
    /\ languageId \in Languages
    /\ vscodeConfig \in VSCodeConfigs
    /\ localLanguages \in {{}, Languages}
    /\ bundledLanguages \in {{}, Languages}
    /\ fileIsIgnored \in BOOLEAN
    /\ pc = "idle"
    /\ IdleRequest

\* format() settles with promise p: _provideEdits' then-callback builds the
\* edit from the document as it is now
Settle(p) ==
    /\ formatResult' = p
    /\ edits' = IF p.status = "fulfilled"
                THEN TextEdits(docAtCall, document, p.value)
                ELSE <<>>
    /\ settled' = IF p.status = "fulfilled" THEN "resolved" ELSE "rejected"
    /\ pc' = "done"

\* _provideEdits(document, options) up to the first suspension of format()
ProvideEdits(op) ==
    LET options == IF op = "range" THEN RangeOptions ELSE EmptyObj
        consult == IF ConsultsIgnore(isUntitled)
                   THEN << [fn |-> "fileIsIgnored", text |-> FileName,
                            opts |-> EmptyObj] >>
                   ELSE <<>>
        chosen == SelectParser(
                      getParsersFromLanguageId(languageId, localLanguages),
                      getParsersFromLanguageId(languageId, bundledLanguages),
                      vscodeConfig.parser)
    IN  /\ pc = "idle"
        /\ operation' = op
        /\ docAtCall' = document
        /\ \/ /\ IsSkipped(isUntitled, fileIsIgnored)
              /\ calls' = calls \o consult
              /\ edits' = <<>>
              /\ settled' = "resolved"
              /\ pc' = "done"
              /\ UNCHANGED <<text, customOptions, parser, useBundled,
                             formatResult>>
           \/ /\ ~IsSkipped(isUntitled, fileIsIgnored)
              /\ IsDisabled(vscodeConfig, languageId)
              /\ text' = document.text
              /\ customOptions' = options
              /\ calls' = calls \o consult
              /\ Settle(Fulfilled(document.text))
              /\ UNCHANGED <<parser, useBundled>>
           \/ /\ ~IsSkipped(isUntitled, fileIsIgnored)
              /\ ~IsDisabled(vscodeConfig, languageId)
              /\ text' = document.text
              /\ customOptions' = options
              /\ parser' = chosen.parser
              /\ useBundled' = chosen.useBundled
              /\ calls' = calls \o consult \o <<ResolveCall(EmptyObj)>>
              /\ pc' = "hasPrettierConfig"
              /\ UNCHANGED <<formatResult, edits, settled>>
        /\ UNCHANGED <<document, hostVars, changes, hasConfig, fileOptions,
                       vscodeLayer, prettierOptions, pretty, outcomes,
                       lintResults, output, usedModule>>

provideDocumentFormattingEdits == ProvideEdits("document")

provideDocumentRangeFormattingEdits == ProvideEdits("range")

\* format() resumes after `await hasPrettierConfig(fileName)`
HasConfigResolved ==
    \E outcome \in ResolveOutcomes :
        LET has == hasPrettierConfig(outcome)
        IN  /\ pc = "hasPrettierConfig"
            /\ hasConfig' = has
            /\ outcomes' = Append(outcomes,
                                  [fn |-> "resolveConfig", kind |-> outcome.kind])
            /\ \/ /\ SkipsForMissingConfig(has, vscodeConfig)
                  /\ Settle(Fulfilled(text))
                  /\ UNCHANGED calls
               \/ /\ ~SkipsForMissingConfig(has, vscodeConfig)
                  /\ calls' = Append(calls,
                                     ResolveCall([editorconfig |-> "true"]))
                  /\ pc' = "resolveConfig"
                  /\ UNCHANGED <<formatResult, edits, settled>>
            /\ UNCHANGED <<document, hostVars, changes, operation, docAtCall,
                           text, customOptions, parser, useBundled, fileOptions,
                           vscodeLayer, prettierOptions, pretty, lintResults,
                           output, usedModule>>

\* format() resumes after `await resolveConfig(fileName, {editorconfig: true})`:
\* merge, choose the engine, format, and on success hand over to the linter
ConfigResolved ==
    \E outcome \in ResolveOutcomes, fmt \in FormatOutcomes :
        LET resolved == resolveConfig(outcome)
            layer == VSCodeLayer(vscodeConfig, parser)
            options == mergeConfig(hasConfig, customOptions,
                                   FileOptions(resolved), layer)
            bundled == TakesBundledBranch(parser, useBundled)
            fp == FormatPromise(fmt)
            said == (IF resolved.error THEN <<"resolveFailed">> ELSE <<>>)
                    \o (IF bundled THEN <<"fallbackWarning">> ELSE <<>>)
            safe == safeExecution(fp, text)
        IN  /\ pc = "resolveConfig"
            /\ fileOptions' = FileOptions(resolved)
            /\ vscodeLayer' = layer
            /\ prettierOptions' = options
            /\ usedModule' = Append(usedModule, UsedModuleEntry(bundled))
            /\ outcomes' = outcomes
                   \o << [fn |-> "resolveConfig", kind |-> outcome.kind],
                         [fn |-> "format", kind |-> fmt.kind] >>
            /\ pretty' = fmt.pretty
            /\ \/ /\ fp.status = "fulfilled"
                  /\ calls' = calls \o << FormatCall(bundled, text, options),
                                          LintCall(fp.value) >>
                  /\ output' = output \o said
                  /\ pc' = "lintText"
                  /\ UNCHANGED <<formatResult, edits, settled>>
               \/ /\ fp.status = "rejected"
                  /\ calls' = Append(calls, FormatCall(bundled, text, options))
                  /\ output' = output \o said \o safe.messages
                  /\ Settle(safe.promise)
            /\ UNCHANGED <<document, hostVars, changes, operation, docAtCall,
                           text, customOptions, parser, useBundled, hasConfig,
                           lintResults>>

\* standard.lintText calls back: the chain ends and safeExecution settles
LintCallback ==
    \E outcome \in LintOutcomes :
        LET safe == safeExecution(FirstOutput(standardLintText(outcome)), text)
        IN  /\ pc = "lintText"
            /\ lintResults' = outcome.results
            /\ outcomes' = Append(outcomes,
                   [fn |-> "lintText",
                    kind |-> IF outcome.err THEN "err" ELSE "results"])
            /\ output' = output \o safe.messages
            /\ Settle(safe.promise)
            /\ UNCHANGED <<document, hostVars, changes, operation, docAtCall,
                           text, customOptions, parser, useBundled, hasConfig,
                           fileOptions, vscodeLayer, prettierOptions, pretty,
                           calls, usedModule>>

\* the host changes the document while the request is suspended
ChangeDocument ==
    /\ pc \in {"hasPrettierConfig", "resolveConfig", "lintText"}
    /\ changes < MaxChanges
    /\ \E d \in Documents \ {document} : document' = d
    /\ changes' = changes + 1
    /\ UNCHANGED <<hostVars, pc, operation, docAtCall, text, customOptions,
                   parser, useBundled, hasConfig, fileOptions, vscodeLayer,
                   prettierOptions, pretty, calls, outcomes, lintResults,
                   output, usedModule, formatResult, edits, settled>>

Next ==
    \/ provideDocumentFormattingEdits
    \/ provideDocumentRangeFormattingEdits
    \/ HasConfigResolved
    \/ ConfigResolved
    \/ LintCallback
    \/ ChangeDocument

Spec == Init /\ [][Next]_vars

\* ------------------------------------------------ mergeConfig alone
\* the layers mergeConfig is applied to: objects over MergeKeys
MergeKeys == {"parser", "semi", "rangeStart"}

Layers(values) == UNION { [D -> values] : D \in SUBSET MergeKeys }

InitMerge ==
    /\ document = CHOOSE d \in Documents : Len(d.lineLengths) = 1
    /\ isUntitled = FALSE
    /\ languageId = "javascript"
    /\ vscodeConfig = CHOOSE c \in VSCodeConfigs :
           c.parser = Undefined /\ c.disableLanguages = <<>> /\ ~c.requireConfig
    /\ localLanguages = Languages
    /\ bundledLanguages = Languages
    /\ fileIsIgnored = FALSE
    /\ pc = "mergeConfig"
    /\ operation = "none"
    /\ docAtCall = document
    /\ text = Undefined
    /\ parser = Undefined
    /\ useBundled = FALSE
    /\ hasConfig \in BOOLEAN
    /\ customOptions \in Layers({"a", "b"})
    /\ fileOptions \in Layers({"a", "b"})
    /\ vscodeLayer \in Layers({"a", Undefined})
    /\ prettierOptions = EmptyObj
    /\ pretty = Undefined
    /\ calls = <<>>
    /\ outcomes = <<>>
    /\ lintResults = <<>>
    /\ output = <<>>
    /\ usedModule = <<>>
    /\ formatResult = Pending
    /\ edits = <<>>
    /\ settled = "pending"
    /\ changes = 0

\* one call of mergeConfig on the drawn layers
MergeConfigCall ==
    /\ pc = "mergeConfig"
    /\ prettierOptions' =
           mergeConfig(hasConfig, customOptions, fileOptions, vscodeLayer)
    /\ pc' = "merged"
    /\ UNCHANGED <<document, hostVars, changes, operation, docAtCall, text,
                   customOptions, parser, useBundled, hasConfig, fileOptions,
                   vscodeLayer, pretty, calls, outcomes, lintResults, output,
                   usedModule, formatResult, edits, settled>>

NextMerge == MergeConfigCall

SpecMerge == InitMerge /\ [][NextMerge]_vars

\* ------------------------------------------------ what the claims speak of
FormatFns == {"localPrettier.format", "bundledPrettier.format"}

CallsTo(fns) == { i \in 1..Len(calls) : calls[i].fn \in fns }

OutcomesOf(fn, kind) ==
    { i \in 1..Len(outcomes) : outcomes[i].fn = fn /\ outcomes[i].kind = kind }

Said(message) == { i \in 1..Len(output) : output[i] = message }

\* the span from line 0 column 0 to the end of the last line of doc
WholeSpan(doc) ==
    <<0, 0, Len(doc.lineLengths) - 1, doc.lineLengths[Len(doc.lineLengths)]>>

\* format() was entered: the request was not turned away by the ignore test
FormatEntered == text # Undefined

FormatThrew == OutcomesOf("format", "throw") # {}

LintErred == OutcomesOf("lintText", "err") # {}

LintUnusable == OutcomesOf("lintText", "results") # {} /\ lintResults = <<>>

\* ------------------------------------------------------------------ C1
\* C1: when the formatter throws, or the linter calls back with an error or
\* with no first result entry, format() resolves to the original text, one
\* diagnostic entry is recorded, and the operation resolves with one edit
\* that carries the original text.
C1_FailureFallsBackToOriginal ==
    (pc = "done" /\ (FormatThrew \/ LintErred \/ LintUnusable)) =>
        /\ formatResult = Fulfilled(docAtCall.text)
        /\ Cardinality(Said("error")) = 1
        /\ settled = "resolved"
        /\ Len(edits) = 1
        /\ edits[1].newText = docAtCall.text

C1_Witness ==
    /\ pc = "done"
    /\ LintUnusable
    /\ Len(edits) = 1
    /\ edits[1].newText = docAtCall.text
    /\ Said("error") # {}

\* ------------------------------------------------------------------ C2
\* C2: for a document whose language is in disableLanguages, format()
\* returns the input text, and the request never looks up a project
\* configuration, never calls a formatter and never calls the linter.
C2_DisabledLanguageIsNoop ==
    (\E i \in 1..Len(vscodeConfig.disableLanguages) :
         vscodeConfig.disableLanguages[i] = languageId) =>
        /\ CallsTo(FormatFns \cup {"resolveConfig", "lintText"}) = {}
        /\ (pc = "done" /\ FormatEntered) =>
               formatResult = Fulfilled(docAtCall.text)
        /\ pc \in {"idle", "done"}

C2_Witness ==
    /\ pc = "done"
    /\ languageId = "css"
    /\ vscodeConfig.disableLanguages = <<"css">>
    /\ formatResult = Fulfilled(docAtCall.text)
    /\ Len(edits) = 1

\* ------------------------------------------------------------------ C3
\* C3: when requireConfig is set and the existence lookup finds no project
\* configuration (null or a failure), format() returns the input text and
\* neither formatter nor linter is called; when requireConfig is not set,
\* a missing project configuration never makes the request skip formatting.
C3_RequireConfigSkips ==
    (Len(outcomes) >= 1 /\ outcomes[1].kind \in {"null", "throw"}) =>
        IF vscodeConfig.requireConfig
        THEN /\ pc = "done"
             /\ formatResult = Fulfilled(docAtCall.text)
             /\ CallsTo(FormatFns \cup {"lintText"}) = {}
        ELSE /\ pc \in {"resolveConfig", "lintText", "done"}
             /\ pc \in {"lintText", "done"} => CallsTo(FormatFns) # {}

C3_Witness ==
    /\ pc = "done"
    /\ vscodeConfig.requireConfig
    /\ Len(outcomes) = 1
    /\ outcomes[1].kind = "throw"
    /\ Len(edits) = 1
    /\ edits[1].newText = docAtCall.text

\* ------------------------------------------------------------------ C4
\* C4: whenever the local formatter offers no parser for the language, the
\* parser is the bundled list's first entry or 'babylon', the bundled
\* formatter formats and the local one does not, the fallback warning is
\* logged exactly once, and the used module is the bundled version with the
\* fallback flag set.
C4_LocalWithoutParsersUsesBundled ==
    (/\ pc \in {"lintText", "done"}
     /\ usedModule # <<>>
     /\ Len(getParsersFromLanguageId(languageId, localLanguages)) = 0) =>
        /\ parser = FirstOrBabylon(
                        getParsersFromLanguageId(languageId, bundledLanguages))
        /\ CallsTo({"bundledPrettier.format"}) # {}
        /\ CallsTo({"localPrettier.format"}) = {}
        /\ Cardinality(Said("fallbackWarning")) = 1
        /\ usedModule = << [name |-> "prettier", version |-> BundledVersion,
                            bundled |-> TRUE] >>

\* ------------------------------------------------------------------ C5
\* C5: mergeConfig is the precedence merge: its keys are the parser key
\* alone (a project configuration exists) or the host layer's keys (none
\* exists), together with the project-file and call-site keys; each key's
\* value comes from the call-site layer if it has the key, else from the
\* project-file layer if it has the key, else from the host layer.
C5_MergeIsPrecedenceMerge ==
    pc = "merged" =>
        /\ DOMAIN prettierOptions =
               (IF hasConfig THEN {"parser"} ELSE DOMAIN vscodeLayer)
               \cup DOMAIN fileOptions \cup DOMAIN customOptions
        /\ \A k \in DOMAIN prettierOptions :
               prettierOptions[k] =
                   CASE k \in DOMAIN customOptions -> customOptions[k]
                     [] k \in DOMAIN fileOptions -> fileOptions[k]
                     [] k \in DOMAIN vscodeLayer -> vscodeLayer[k]
                     [] OTHER -> Undefined

C5_Witness ==
    /\ pc = "merged"
    /\ hasConfig
    /\ DOMAIN vscodeLayer = MergeKeys
    /\ DOMAIN fileOptions = {"parser", "semi"}
    /\ DOMAIN customOptions = {"parser"}
    /\ fileOptions["parser"] # customOptions["parser"]
    /\ prettierOptions = [parser |-> customOptions["parser"],
                          semi |-> fileOptions["semi"]]

\* ------------------------------------------------------------------ C6
\* C6: the options handed to a formatter always carry a parser key whose
\* value is not undefined.
C6_ParserAlwaysDefined ==
    \A i \in CallsTo(FormatFns) :
        /\ "parser" \in DOMAIN calls[i].opts
        /\ calls[i].opts["parser"] # Undefined
        /\ calls[i].opts = prettierOptions

C6_Witness ==
    /\ CallsTo(FormatFns) # {}
    /\ languageId \notin localLanguages
    /\ languageId \notin bundledLanguages
    /\ hasConfig
    /\ "parser" \notin DOMAIN fileOptions
    /\ prettierOptions["parser"] = "babylon"

\* ------------------------------------------------------------------ C7
\* C7: for both operations the result is the empty edit list, with no
\* configuration lookup, formatter call or linter call, exactly when the
\* document is saved and the ignore-predicate reports its path ignored;
\* otherwise it is one edit spanning the whole document, from line 0
\* column 0 to the end of the last line; for an untitled document the
\* ignore-predicate is never consulted.
C7_EmptyEditsExactlyWhenIgnored ==
    /\ isUntitled => CallsTo({"fileIsIgnored"}) = {}
    /\ pc = "done" =>
           /\ settled = "resolved"
           /\ edits = <<>> <=> (~isUntitled /\ fileIsIgnored)
           /\ edits = <<>> =>
                  CallsTo(FormatFns \cup {"resolveConfig", "lintText"}) = {}
           /\ edits # <<>> =>
                  /\ Len(edits) = 1
                  /\ edits[1].range = WholeSpan(document)
                  /\ edits[1].range[1] = 0
                  /\ edits[1].range[2] = 0

C7_Witness ==
    /\ pc = "done"
    /\ operation = "range"
    /\ isUntitled
    /\ fileIsIgnored
    /\ Len(edits) = 1
    /\ Len(document.lineLengths) = 3
    /\ edits[1].range = <<0, 0, 2, 0>>

\* ------------------------------------------------------------------ C8
\* C8: once a formatter call has succeeded, the linter has been called
\* exactly once, after the formatter, with the formatter's output as its
\* text, fix enabled and the parser 'babel-eslint', whatever the parser's
\* family and whichever engine formatted; the final text is the output of
\* the first result entry; the linter is never called when the formatter
\* call failed or was not made.
C8_AutofixAlwaysFollowsFormat ==
    /\ Cardinality(CallsTo({"lintText"})) <= 1
    /\ OutcomesOf("format", "ok") # {} =>
           /\ Cardinality(CallsTo({"lintText"})) = 1
           /\ \A l \in CallsTo({"lintText"}) :
                  /\ \A f \in CallsTo(FormatFns) : f < l
                  /\ calls[l].text = pretty
                  /\ calls[l].opts = [fix |-> "true", parser |-> "babel-eslint"]
    /\ OutcomesOf("format", "ok") = {} => CallsTo({"lintText"}) = {}
    /\ (pc = "done" /\ OutcomesOf("lintText", "results") # {}
            /\ Len(lintResults) >= 1) =>
           /\ formatResult = Fulfilled(lintResults[1].output)
           /\ edits[1].newText = lintResults[1].output

C8_Witness ==
    /\ pc = "done"
    /\ parser = "postcss"
    /\ CallsTo({"bundledPrettier.format"}) # {}
    /\ CallsTo({"lintText"}) # {}
    /\ Len(lintResults) = 2
    /\ lintResults[1].output # Undefined
    /\ lintResults[2].output = Undefined
    /\ edits[1].newText = lintResults[1].output

\* ------------------------------------------------------------------ C9
\* C9: every failed project-configuration lookup, the existence check as
\* well as the editorconfig-enabled lookup, appends a message to the
\* diagnostic output, and the request goes on to format, also when
\* requireConfig is set.
C9_EveryLookupFailureLoggedAndNonFatal ==
    /\ Cardinality(Said("resolveFailed")) =
           Cardinality(OutcomesOf("resolveConfig", "throw"))
    /\ (pc = "done" /\ OutcomesOf("resolveConfig", "throw") # {}) =>
           CallsTo(FormatFns) # {}

\* ------------------------------------------------------------------ C10
\* C10 as stated: the edit's span is the full span of the document version
\* whose text was read when the request started.
C10_SpanOfVersionRead ==
    (pc = "done" /\ Len(edits) = 1) => edits[1].range = WholeSpan(docAtCall)

\* C10 as amended: the edit's span is the full span of the document as it is
\* when format() settles, while the text handed to the formatter is the text
\* read when the request started; the two are of one version when the host
\* made no change in between.
C10_SpanOfVersionAtSettle ==
    (pc = "done" /\ Len(edits) = 1) =>
        /\ edits[1].range = WholeSpan(document)
        /\ \A f \in CallsTo(FormatFns) : calls[f].text = docAtCall.text
        /\ changes = 0 => edits[1].range = WholeSpan(docAtCall)

C10_Witness ==
    /\ pc = "done"
    /\ changes > 0
    /\ Len(edits) = 1
    /\ CallsTo(FormatFns) # {}
    /\ edits[1].range = WholeSpan(document)
    /\ edits[1].range # WholeSpan(docAtCall)

====
